---- MODULE Spec2Model ----
(***************************************************************************)
(* bevy_spritefusion: the map-import pipeline of the Sprite Fusion plugin. *)
(*                                                                         *)
(* The asset loader decodes a *.sf.json document into a SpriteFusionMap,   *)
(* and the Update system spawn_spritefusion_maps turns every pending map   *)
(* request whose two assets are loaded into layer (tilemap) entities and   *)
(* tile entities.  The module models the loader's decoding, the system,    *)
(* the tile-id parser and the TileAttributes accessors.                    *)
(***************************************************************************)
EXTENDS Integers, Sequences, FiniteSets, TLC

VARIABLES
    overflowChecks, \* build profile: TRUE = overflow checks on (dev), FALSE = release
    source,         \* source[r]: the document behind request r's map handle
    map_assets,     \* Assets<SpriteFusionMap>, per request handle
    image_assets,   \* Assets<Image>, per request handle
    pending,        \* pending[r]: entity r carries PendingSpriteFusionMap
    transform,      \* transform[r]: the request entity's Transform translation
    marker,         \* marker[r]: the SpriteFusionMapMarker of entity r, if any
    tilemaps,       \* tilemaps[r]: the layer entities spawned for r, in spawn order
    tiles,          \* tiles[r]: the tile entities spawned for r, in spawn order
    log,            \* the info! lines written by the system, in order
    panicked,       \* the system panicked: the app is gone
    ticks,          \* Update passes run so far (saturates at MaxTicks)
    lookup          \* the last TileAttributes lookup a user system made

vars == <<overflowChecks, source, map_assets, image_assets, pending, transform,
          marker, tilemaps, tiles, log, panicked, ticks, lookup>>

---------------------------------------------------------------------------
(* Bounds of the model.                                                    *)

MaxRequests == 2    \* map requests spawned at startup
MaxTicks == 2       \* the tick counter saturates here
MaxLayers == 2      \* layers of a generated map
MaxTiles == 2       \* tiles of a generated layer
MaxCoord == 1       \* generated tile coordinates range over -1 .. MaxCoord
MaxIdLen == 2       \* length of a generated tile id string

---------------------------------------------------------------------------
(* u32 arithmetic.  TLC's integers are 32-bit signed, so a u32 is kept as  *)
(* its distance from 0 or from 2^32:                                       *)
(*   [big |-> FALSE, n |-> k]  is the value k,                             *)
(*   [big |-> TRUE,  n |-> k]  (k >= 1) is the value 2^32 - k.             *)
(* All values the model computes lie within a small distance of 0 or 2^32. *)

U32(k) == [big |-> FALSE, n |-> k]

\* The representative of u modulo 2^32 that is nearest to 0.
Residue(u) == IF u.big THEN -u.n ELSE u.n

FromResidue(d) == IF d >= 0 THEN [big |-> FALSE, n |-> d] ELSE [big |-> TRUE, n |-> -d]

\* `v as u32` for an i32 v: the two's-complement reinterpretation.
I32AsU32(v) == FromResidue(v)

\* a < b as unsigned values.
U32Less(a, b) == IF a.big = b.big THEN Residue(a) < Residue(b) ELSE b.big

WrappingSub(a, b) == FromResidue(Residue(a) - Residue(b))

SubOverflows(a, b) == U32Less(a, b)

WrappingMul(a, b) == FromResidue(Residue(a) * Residue(b))

MulOverflows(a, b) ==
    /\ a.n # 0
    /\ b.n # 0
    /\ \/ a.big /\ b # U32(1)
       \/ b.big /\ a # U32(1)

WrappingAdd(a, b) == FromResidue(Residue(a) + Residue(b))

AddOverflows(a, b) ==
    IF a.big /\ b.big THEN TRUE
    ELSE IF a.big \/ b.big THEN Residue(a) + Residue(b) >= 0
    ELSE FALSE

---------------------------------------------------------------------------
(* f32 arithmetic: [m, e] is the value m * 2^e with a 24-bit significand,  *)
(* 2^23 <= |m| < 2^24, or m = 0.  Round to nearest, ties to even.          *)

Pow2(k) == 2 ^ k

Abs(i) == IF i < 0 THEN -i ELSE i

Sign(i) == IF i < 0 THEN -1 ELSE 1

F32Zero == [m |-> 0, e |-> 0]

F32MantBits == 24

\* Bits by which |mag| exceeds the significand width.
RECURSIVE ExcessBits(_)
ExcessBits(mag) == IF mag < Pow2(F32MantBits) THEN 0 ELSE 1 + ExcessBits(mag \div 2)

RECURSIVE ShiftUp(_, _)
ShiftUp(mag, e) ==
    IF mag >= Pow2(F32MantBits - 1) THEN [m |-> mag, e |-> e] ELSE ShiftUp(2 * mag, e - 1)

\* The f32 nearest to M * 2^E (M any integer TLC can hold).
F32Round(M, E) ==
    IF M = 0 THEN F32Zero
    ELSE LET mag == Abs(M)
             s == ExcessBits(mag)
         IN  IF s = 0
             THEN LET r == ShiftUp(mag, E) IN [m |-> Sign(M) * r.m, e |-> r.e]
             ELSE LET q == mag \div Pow2(s)
                      rem == mag % Pow2(s)
                      half == Pow2(s - 1)
                      up == rem > half \/ (rem = half /\ q % 2 = 1)
                      r == IF up THEN q + 1 ELSE q
                  IN  IF r = Pow2(F32MantBits)
                      THEN [m |-> Sign(M) * Pow2(F32MantBits - 1), e |-> E + s + 1]
                      ELSE [m |-> Sign(M) * r, e |-> E + s]

\* `i as f32` for a small integer.
IntAsF32(i) == F32Round(i, 0)

F32Neg(x) == [m |-> -x.m, e |-> x.e]

F32GuardBits == 3

\* x + y.  The operand of smaller exponent is aligned to the larger one; when the
\* gap is wide it is shifted right with a sticky bit, as a hardware adder does.
F32Add(x, y) ==
    IF x.m = 0 THEN y
    ELSE IF y.m = 0 THEN x
    ELSE LET hi == IF x.e >= y.e THEN x ELSE y
             lo == IF x.e >= y.e THEN y ELSE x
             d == hi.e - lo.e
         IN  IF d <= 6
             THEN F32Round(hi.m * Pow2(d) + lo.m, lo.e)
             ELSE LET shift == d - F32GuardBits
                      mag == Abs(lo.m)
                      q == IF shift >= F32MantBits THEN 0 ELSE mag \div Pow2(shift)
                      inexact == IF shift >= F32MantBits THEN TRUE ELSE mag % Pow2(shift) # 0
                      qs == IF inexact /\ q % 2 = 0 THEN q + 1 ELSE q
                  IN  F32Round(hi.m * Pow2(F32GuardBits) + Sign(lo.m) * qs,
                               hi.e - F32GuardBits)

\* The significand with its trailing zero bits moved into the exponent.
RECURSIVE F32Reduce(_)
F32Reduce(x) ==
    IF x.m = 0 \/ x.m % 2 # 0 THEN x ELSE F32Reduce([m |-> x.m \div 2, e |-> x.e + 1])

\* x * y, for operands whose reduced significands multiply within TLC's integers.
F32Mul(x, y) ==
    LET a == F32Reduce(x)
        b == F32Reduce(y)
    IN  F32Round(a.m * b.m, a.e + b.e)

\* x < y.
F32Less(x, y) ==
    IF x.m = 0 THEN y.m > 0
    ELSE IF y.m = 0 THEN x.m < 0
    ELSE IF (x.m < 0) # (y.m < 0) THEN x.m < 0
    ELSE IF x.m > 0
         THEN x.e < y.e \/ (x.e = y.e /\ x.m < y.m)
         ELSE x.e > y.e \/ (x.e = y.e /\ x.m < y.m)

F32Abs(x) == [m |-> Abs(x.m), e |-> x.e]

\* The literal 0.1 as an f32: 13421773 * 2^-27.
F32Tenth == [m |-> 13421773, e |-> -27]

---------------------------------------------------------------------------
(* Option values and the scalar types of the decoded data.                 *)

NoneStr == [some |-> FALSE, val |-> ""]
SomeStr(s) == [some |-> TRUE, val |-> s]
NoneBool == [some |-> FALSE, val |-> FALSE]
SomeBool(b) == [some |-> TRUE, val |-> b]
NoneI64 == [some |-> FALSE, val |-> 0]
SomeI64(i) == [some |-> TRUE, val |-> i]

\* An f64 result: halves/2, plus 2^63 when `over`.
F64(over, halves) == [over |-> over, halves |-> halves]
NoneF64 == [some |-> FALSE, val |-> F64(FALSE, 0)]
SomeF64(f) == [some |-> TRUE, val |-> f]

---------------------------------------------------------------------------
(* serde_json::Value, as far as attribute values go.  A Number is PosInt   *)
(* (v, or 2^63 + v when `over`), NegInt (v < 0) or Float (v halves).       *)

JNull == [t |-> "Null", b |-> FALSE, s |-> "", k |-> "-", v |-> 0, over |-> FALSE]
JBool(b) == [t |-> "Bool", b |-> b, s |-> "", k |-> "-", v |-> 0, over |-> FALSE]
JString(s) == [t |-> "String", b |-> FALSE, s |-> s, k |-> "-", v |-> 0, over |-> FALSE]
JArray == [t |-> "Array", b |-> FALSE, s |-> "", k |-> "-", v |-> 0, over |-> FALSE]
JInt(i) ==
    [t |-> "Number", b |-> FALSE, s |-> "", k |-> IF i >= 0 THEN "PosInt" ELSE "NegInt",
     v |-> i, over |-> FALSE]
\* An integer above i64::MAX: 2^63 + i.
JBigUInt(i) == [t |-> "Number", b |-> FALSE, s |-> "", k |-> "PosInt", v |-> i, over |-> TRUE]
JFloat(halves) ==
    [t |-> "Number", b |-> FALSE, s |-> "", k |-> "Float", v |-> halves, over |-> FALSE]

as_str(v) == IF v.t = "String" THEN SomeStr(v.s) ELSE NoneStr

as_bool(v) == IF v.t = "Bool" THEN SomeBool(v.b) ELSE NoneBool

as_i64(v) ==
    IF v.t # "Number" THEN NoneI64
    ELSE IF v.k = "PosInt" THEN (IF v.over THEN NoneI64 ELSE SomeI64(v.v))
    ELSE IF v.k = "NegInt" THEN SomeI64(v.v)
    ELSE NoneI64

\* A faulty variant of as_f64: only a Float is returned.
as_f64_float_only(v) ==
    IF v.t = "Number" /\ v.k = "Float" THEN SomeF64(F64(FALSE, v.v)) ELSE NoneF64

\* `n as f64`: exact for a small integer; 2^63 + v rounds to 2^63.
as_f64(v) ==
    IF v.t # "Number" THEN NoneF64
    ELSE IF v.k = "Float" THEN SomeF64(F64(FALSE, v.v))
    ELSE IF v.over THEN SomeF64(F64(TRUE, 0))
    ELSE SomeF64(F64(FALSE, 2 * v.v))

---------------------------------------------------------------------------
(* HashMap<String, serde_json::Value>: a set of entries [k, v], one per    *)
(* key.                                                                    *)

Keys(entries) == {en.k : en \in entries}

\* HashMap::get, a key of the map given.
Entry(entries, key) == (CHOOSE en \in entries : en.k = key).v

\* TileAttributes accessors.
get_str(attrs, key) == IF key \in Keys(attrs) THEN as_str(Entry(attrs, key)) ELSE NoneStr

get_bool(attrs, key) == IF key \in Keys(attrs) THEN as_bool(Entry(attrs, key)) ELSE NoneBool

get_i64(attrs, key) == IF key \in Keys(attrs) THEN as_i64(Entry(attrs, key)) ELSE NoneI64

get_f64(attrs, key) == IF key \in Keys(attrs) THEN as_f64(Entry(attrs, key)) ELSE NoneF64

contains(attrs, key) == key \in Keys(attrs)

NoAttributes == [some |-> FALSE, entries |-> {}]
SomeAttributes(entries) == [some |-> TRUE, entries |-> entries]

---------------------------------------------------------------------------
(* SpriteFusionTile::tile_id: `self.id.parse().unwrap_or(0)` into a u32.   *)
(* A string is a sequence of one-character strings.                        *)

Digits == {"0", "1", "2", "3", "4", "5", "6", "7", "8", "9"}

DigitVal(c) ==
    CASE c = "0" -> 0 [] c = "1" -> 1 [] c = "2" -> 2 [] c = "3" -> 3 [] c = "4" -> 4
      [] c = "5" -> 5 [] c = "6" -> 6 [] c = "7" -> 7 [] c = "8" -> 8 [] c = "9" -> 9

ParseErr == [ok |-> FALSE, v |-> 0]
ParseOk(n) == [ok |-> TRUE, v |-> n]

\* u32::MAX / 10 = 429496729 and u32::MAX % 10 = 5: the checked multiply-add.
U32MaxDiv10 == 429496729
U32MaxMod10 == 5

RECURSIVE ParseDigits(_, _, _)
ParseDigits(d, i, acc) ==
    IF i > Len(d) THEN ParseOk(acc)
    ELSE IF d[i] \notin Digits THEN ParseErr
    ELSE IF acc > U32MaxDiv10 THEN ParseErr
    ELSE IF acc = U32MaxDiv10 /\ DigitVal(d[i]) > U32MaxMod10 THEN ParseErr
    ELSE ParseDigits(d, i + 1, acc * 10 + DigitVal(d[i]))

\* A faulty variant of ParseU32: a leading "+" is not accepted.
ParseU32DigitsOnly(s) == IF Len(s) = 0 THEN ParseErr ELSE ParseDigits(s, 1, 0)

\* <u32 as FromStr>::from_str: an optional leading "+", then decimal digits.
ParseU32(s) ==
    IF Len(s) = 0 THEN ParseErr
    ELSE IF Len(s) = 1 /\ s[1] \in {"+", "-"} THEN ParseErr
    ELSE ParseDigits(IF s[1] = "+" THEN Tail(s) ELSE s, 1, 0)

tile_id(tile) == LET r == ParseU32(tile.id) IN IF r.ok THEN r.v ELSE 0

---------------------------------------------------------------------------
(* The loader: serde_json::from_slice into SpriteFusionMap.  A document is *)
(* [valid, tileSize, mapWidth, mapHeight, layers]; `valid` is FALSE for    *)
(* bytes that are not JSON of the schema's shape.  In a layer, collider is *)
(* "absent", "true" or "false"; in a tile, attributes is [kind, entries]   *)
(* with kind "absent", "null" or "object".                                 *)

DecodeTile(t) ==
    [id |-> t.id, x |-> t.x, y |-> t.y,
     attributes |-> IF t.attributes.kind = "object"
                    THEN SomeAttributes(t.attributes.entries)
                    ELSE NoAttributes]

DecodeLayer(l) ==
    [name |-> l.name,
     collider |-> (l.collider = "true"),
     tiles |-> [i \in 1..Len(l.tiles) |-> DecodeTile(l.tiles[i])]]

DecodeErr == [ok |-> FALSE,
              map |-> [tile_size |-> 0, map_width |-> 0, map_height |-> 0, layers |-> <<>>]]

\* tileSize, mapWidth and mapHeight are u32 fields: a negative number is a
\* schema mismatch.
from_slice(doc) ==
    IF ~doc.valid \/ doc.tileSize < 0 \/ doc.mapWidth < 0 \/ doc.mapHeight < 0
    THEN DecodeErr
    ELSE [ok |-> TRUE,
          map |-> [tile_size |-> doc.tileSize,
                   map_width |-> doc.mapWidth,
                   map_height |-> doc.mapHeight,
                   layers |-> [i \in 1..Len(doc.layers) |-> DecodeLayer(doc.layers[i])]]]

---------------------------------------------------------------------------
(* bevy_ecs_tilemap's TileStorage, as the system uses it: a Vec of         *)
(* width * height slots, indexed by y * width + x.  Entity 0 is None.      *)

NoEntity == 0

TileStorageEmpty(size) ==
    [size |-> size, tiles |-> [i \in 1..(size.x * size.y) |-> NoEntity]]

\* TilePos::to_index: ((y * size.x) + x) as usize.
to_index(pos, size) ==
    LET prod == WrappingMul(pos.y, U32(size.x))
    IN  [overflow |-> MulOverflows(pos.y, U32(size.x)) \/ AddOverflows(prod, pos.x),
         index |-> WrappingAdd(prod, pos.x)]

\* TileStorage::set: self.tiles[pos.to_index(&self.size)].replace(entity).  The
\* index operation panics outside the Vec.
TileStorageSet(storage, pos, entity) ==
    LET ix == to_index(pos, storage.size)
        inside == ~ix.index.big /\ ix.index.n < Len(storage.tiles)
    IN  [overflow |-> ix.overflow,
         out_of_bounds |-> ~inside,
         storage |-> IF inside
                     THEN [storage EXCEPT !.tiles[ix.index.n + 1] = entity]
                     ELSE storage]

---------------------------------------------------------------------------
(* spawn_spritefusion_maps, one pending request.                           *)

\* let tile_pos = TilePos { x: tile.x as u32, y: (map.map_height - 1) - tile.y as u32 }
TilePosOf(map, tile) ==
    LET h == U32(map.map_height)
        top == WrappingSub(h, U32(1))
        yu == I32AsU32(tile.y)
    IN  [overflow |-> SubOverflows(h, U32(1)) \/ SubOverflows(top, yu),
         pos |-> [x |-> I32AsU32(tile.x), y |-> WrappingSub(top, yu)]]

\* A faulty variant of TileCollider: every tile is tagged.
TileColliderAlways(layer) == TRUE

\* if layer.collider { insert(Collider) }
TileCollider(layer) == layer.collider

\* A faulty variant of TilePayload: the is_empty check is dropped.
TilePayloadIfPresent(tile) ==
    IF tile.attributes.some THEN SomeAttributes(tile.attributes.entries) ELSE NoAttributes

\* if let Some(attrs) = &tile.attributes { if !attrs.is_empty() { insert(TileAttributes(attrs.clone())) } }
TilePayload(tile) ==
    IF tile.attributes.some /\ tile.attributes.entries # {}
    THEN SomeAttributes(tile.attributes.entries)
    ELSE NoAttributes

\* The tile entity spawned for `tile` of `layer`, a child of tilemap `tilemap_entity`.
TileEntity(map, layer, tilemap_entity, tile) ==
    [position |-> TilePosOf(map, tile).pos,
     tilemap_id |-> tilemap_entity,
     texture_index |-> tile_id(tile),
     collider |-> TileCollider(layer),
     attributes |-> TilePayload(tile)]

\* The arithmetic of one tile panics: an overflow in a build that checks for it, or
\* a storage slot outside the Vec in any build.
TilePanics(map, storage, tile) ==
    LET p == TilePosOf(map, tile)
        w == TileStorageSet(storage, p.pos, NoEntity)
    IN  \/ overflowChecks /\ (p.overflow \/ w.overflow)
        \/ w.out_of_bounds

\* for tile in &layer.tiles { ... }: acc is [panic, storage, spawned], spawned the
\* request's tile entities so far.
RECURSIVE SpawnTiles(_, _, _, _, _)
SpawnTiles(map, layer, tilemap_entity, k, acc) ==
    IF acc.panic \/ k > Len(layer.tiles) THEN acc
    ELSE LET tile == layer.tiles[k]
             ent == TileEntity(map, layer, tilemap_entity, tile)
             id == Len(acc.spawned) + 1
         IN  IF TilePanics(map, acc.storage, tile)
             THEN [acc EXCEPT !.panic = TRUE]
             ELSE SpawnTiles(map, layer, tilemap_entity, k + 1,
                      [panic |-> FALSE,
                       storage |-> TileStorageSet(acc.storage, ent.position, id).storage,
                       spawned |-> Append(acc.spawned, ent)])

\* A faulty variant of LayerZ: the negation is dropped.
LayerZForward(layer_index) == F32Mul(IntAsF32(layer_index), F32Tenth)

\* let layer_z = -((layer_index as f32) * 0.1)
LayerZ(layer_index) == F32Neg(F32Mul(IntAsF32(layer_index), F32Tenth))

\* Transform::from_translation(Vec3::new(x, y, z + layer_z))
LayerTransform(tf, layer_index) ==
    [x |-> tf.x, y |-> tf.y, z |-> F32Add(tf.z, LayerZ(layer_index))]

\* SpriteFusionLayerMarker { name, index, collider }
LayerMarker(layer, layer_index) ==
    [name |-> layer.name, index |-> layer_index, collider |-> layer.collider]

\* The tilemap entity of one layer: its TilemapBundle fields, marker and parent.
TilemapEntity(map, layer, layer_index, storage, tf, r) ==
    [size |-> [x |-> map.map_width, y |-> map.map_height],
     storage |-> storage,
     tile_size |-> IntAsF32(map.tile_size),
     grid_size |-> IntAsF32(map.tile_size),
     texture |-> r,
     transform |-> LayerTransform(tf, layer_index),
     marker |-> LayerMarker(layer, layer_index),
     parent |-> r]

\* for (layer_index, layer) in map.layers.iter().enumerate() { ... }: acc is
\* [panic, tilemaps, tiles].  Layer li of the sequence has layer_index li - 1.
RECURSIVE SpawnLayers(_, _, _, _, _)
SpawnLayers(map, tf, r, li, acc) ==
    IF acc.panic \/ li > Len(map.layers) THEN acc
    ELSE LET layer == map.layers[li]
             size == [x |-> map.map_width, y |-> map.map_height]
             t == SpawnTiles(map, layer, li, 1,
                      [panic |-> FALSE, storage |-> TileStorageEmpty(size),
                       spawned |-> acc.tiles])
         IN  IF t.panic
             THEN [acc EXCEPT !.panic = TRUE]
             ELSE SpawnLayers(map, tf, r, li + 1,
                      [panic |-> FALSE,
                       tilemaps |-> Append(acc.tilemaps,
                           TilemapEntity(map, layer, li - 1, t.storage, tf, r)),
                       tiles |-> t.spawned])

RECURSIVE SumTiles(_, _)
SumTiles(layers, li) ==
    IF li > Len(layers) THEN 0 ELSE Len(layers[li].tiles) + SumTiles(layers, li + 1)

RECURSIVE CountWithAttrs(_, _)
CountWithAttrs(layers, li) ==
    IF li > Len(layers) THEN 0
    ELSE Cardinality({k \in 1..Len(layers[li].tiles) :
             LET a == layers[li].tiles[k].attributes IN a.some /\ a.entries # {}})
         + CountWithAttrs(layers, li + 1)

\* info!("Spawned SpriteFusion map with {} layers ({} tiles total, {} with attributes)")
Summary(map) ==
    [layers |-> Len(map.layers),
     tiles |-> SumTiles(map.layers, 1),
     with_attrs |-> CountWithAttrs(map.layers, 1)]

\* The body of the loop for one request whose two assets are loaded.
Materialize(map, tf, r) ==
    SpawnLayers(map, tf, r, 1, [panic |-> FALSE, tilemaps |-> <<>>, tiles |-> <<>>])

---------------------------------------------------------------------------
(* The app: asset tables, request entities, and the Update schedule.       *)

EmptyMap == [tile_size |-> 0, map_width |-> 0, map_height |-> 0, layers |-> <<>>]

NoMarker == [present |-> FALSE, map |-> EmptyMap]

NoLookup ==
    [done |-> FALSE, key |-> "", attrs |-> {}, str |-> NoneStr, bool |-> NoneBool,
     i64 |-> NoneI64, f64 |-> NoneF64, has |-> FALSE]

Requests == DOMAIN source

\* A faulty variant of Ready: the tileset image is not waited for.
ReadyMapOnly(r) == map_assets[r].state = "Loaded"

\* map_assets.get(handle) and image_assets.get(handle) both return Some.
Ready(r) == map_assets[r].state = "Loaded" /\ image_assets[r] = "Loaded"

\* The loader's task for request r ends Ok(map): the asset is inserted.
LoadMap(r) ==
    /\ ~panicked
    /\ map_assets[r].state = "Loading"
    /\ from_slice(source[r]).ok
    /\ map_assets' = [map_assets EXCEPT ![r] =
                         [state |-> "Loaded", map |-> from_slice(source[r]).map]]
    /\ UNCHANGED <<overflowChecks, source, image_assets, pending, transform, marker,
                   tilemaps, tiles, log, panicked, ticks, lookup>>

\* The loader's task ends Err: the read failed (Io) or the bytes did not decode (Json).
LoadMapFails(r) ==
    /\ ~panicked
    /\ map_assets[r].state = "Loading"
    /\ map_assets' = [map_assets EXCEPT ![r] = [state |-> "Failed", map |-> EmptyMap]]
    /\ UNCHANGED <<overflowChecks, source, image_assets, pending, transform, marker,
                   tilemaps, tiles, log, panicked, ticks, lookup>>

\* The host's image loader resolves, or fails, the tileset handle.
LoadImage(r) ==
    /\ ~panicked
    /\ image_assets[r] = "Loading"
    /\ image_assets' = [image_assets EXCEPT ![r] = "Loaded"]
    /\ UNCHANGED <<overflowChecks, source, map_assets, pending, transform, marker,
                   tilemaps, tiles, log, panicked, ticks, lookup>>

LoadImageFails(r) ==
    /\ ~panicked
    /\ image_assets[r] = "Loading"
    /\ image_assets' = [image_assets EXCEPT ![r] = "Failed"]
    /\ UNCHANGED <<overflowChecks, source, map_assets, pending, transform, marker,
                   tilemaps, tiles, log, panicked, ticks, lookup>>

\* The orders in which a query may iterate the entities of S.
Orders(S) ==
    {o \in [1..Cardinality(S) -> S] : \A i, j \in 1..Cardinality(S) : o[i] = o[j] => i = j}

\* The system's loop over `order`: acc is [panic, done, out, log], done the requests
\* whose commands are queued and out[r] what they spawn.  A request whose assets are
\* not both loaded is skipped.
RECURSIVE RunSystem(_, _, _)
RunSystem(order, i, acc) ==
    IF acc.panic \/ i > Len(order) THEN acc
    ELSE LET r == order[i]
             m == Materialize(map_assets[r].map, transform[r], r)
         IN  IF ~Ready(r) THEN RunSystem(order, i + 1, acc)
             ELSE IF m.panic
                  THEN [acc EXCEPT !.panic = TRUE]
                  ELSE RunSystem(order, i + 1,
                           [panic |-> FALSE,
                            done |-> acc.done \cup {r},
                            out |-> [acc.out EXCEPT ![r] = m],
                            log |-> Append(acc.log, Summary(map_assets[r].map))])

Min(a, b) == IF a < b THEN a ELSE b

NothingSpawned == [panic |-> FALSE, tilemaps |-> <<>>, tiles |-> <<>>]

\* One run of spawn_spritefusion_maps in the Update schedule, and the application of
\* the commands it queued.  A panic ends the app: the queued commands are lost, the
\* lines already logged are not.
Tick ==
    /\ ~panicked
    /\ \E res \in {RunSystem(order, 1,
                        [panic |-> FALSE, done |-> {},
                         out |-> [r \in Requests |-> NothingSpawned], log |-> log]) :
                    order \in Orders({r \in Requests : pending[r]})} :
              /\ log' = res.log
              /\ IF res.panic
                 THEN /\ panicked' = TRUE
                      /\ UNCHANGED <<pending, marker, tilemaps, tiles, ticks>>
                 ELSE /\ panicked' = FALSE
                      /\ pending' = [r \in Requests |-> pending[r] /\ r \notin res.done]
                      /\ marker' = [r \in Requests |->
                            IF r \in res.done
                            THEN [present |-> TRUE, map |-> map_assets[r].map]
                            ELSE marker[r]]
                      /\ tilemaps' = [r \in Requests |-> tilemaps[r] \o res.out[r].tilemaps]
                      /\ tiles' = [r \in Requests |-> tiles[r] \o res.out[r].tiles]
                      /\ ticks' = Min(ticks + 1, MaxTicks)
    /\ UNCHANGED <<overflowChecks, source, map_assets, image_assets, transform, lookup>>

\* The keys a user system asks for.
QueryKeys == {"name", "value", "missing"}

\* A user system (examples/basic.rs, print_collectibles) reads tile t's TileAttributes.
ReadAttributes(r, t, key) ==
    /\ ~panicked
    /\ t \in 1..Len(tiles[r])
    /\ tiles[r][t].attributes.some
    /\ LET attrs == tiles[r][t].attributes.entries
       IN  lookup' = [done |-> TRUE, key |-> key, attrs |-> attrs,
                      str |-> get_str(attrs, key), bool |-> get_bool(attrs, key),
                      i64 |-> get_i64(attrs, key), f64 |-> get_f64(attrs, key),
                      has |-> contains(attrs, key)]
    /\ UNCHANGED <<overflowChecks, source, map_assets, image_assets, pending, transform,
                   marker, tilemaps, tiles, log, panicked, ticks>>

Next ==
    \/ \E r \in Requests : LoadMap(r)
    \/ \E r \in Requests : LoadMapFails(r)
    \/ \E r \in Requests : LoadImage(r)
    \/ \E r \in Requests : LoadImageFails(r)
    \/ Tick

NextWithReader ==
    \/ Next
    \/ \E r \in Requests, key \in QueryKeys : \E t \in 1..Len(tiles[r]) :
          ReadAttributes(r, t, key)

\* The state after Startup: every request in `reqs` is spawned with its bundle
\* (Pending, no marker, no children), its document one of `docs` and its translation
\* one of `tfs`; both handles are loading.
InitWith(reqs, docs, tfs) ==
    /\ overflowChecks \in BOOLEAN
    /\ source \in [reqs -> docs]
    /\ transform \in [reqs -> tfs]
    /\ map_assets = [r \in reqs |-> [state |-> "Loading", map |-> EmptyMap]]
    /\ image_assets = [r \in reqs |-> "Loading"]
    /\ pending = [r \in reqs |-> TRUE]
    /\ marker = [r \in reqs |-> NoMarker]
    /\ tilemaps = [r \in reqs |-> <<>>]
    /\ tiles = [r \in reqs |-> <<>>]
    /\ log = <<>>
    /\ panicked = FALSE
    /\ ticks = 0
    /\ lookup = NoLookup

---------------------------------------------------------------------------
(* Input documents.                                                        *)

AttrAbsent == [kind |-> "absent", entries |-> {}]
AttrNull == [kind |-> "null", entries |-> {}]
AttrObject(entries) == [kind |-> "object", entries |-> entries]

TileDoc(id, x, y, attributes) == [id |-> id, x |-> x, y |-> y, attributes |-> attributes]

LayerDoc(name, collider, tileDocs) == [name |-> name, collider |-> collider, tiles |-> tileDocs]

MapDoc(tileSize, w, h, layerDocs) ==
    [valid |-> TRUE, tileSize |-> tileSize, mapWidth |-> w, mapHeight |-> h,
     layers |-> layerDocs]

\* Bytes that are not a map document.
InvalidDoc ==
    [valid |-> FALSE, tileSize |-> 0, mapWidth |-> 0, mapHeight |-> 0, layers |-> <<>>]

\* The sequences over S of length at most n.
SeqsUpTo(S, n) == UNION {[1..k -> S] : k \in 0..n}

Gem == {[k |-> "name", v |-> JString("gem")]}

GemWorth == Gem \cup {[k |-> "value", v |-> JInt(10)]}

Origin == [x |-> F32Zero, y |-> F32Zero, z |-> F32Zero]

\* Scheduling: a well-formed two-layer map, an empty map, a map with a tile below
\* the last row, a document with a negative height, and bytes that do not decode.
GoodDoc ==
    MapDoc(16, 2, 2,
        <<LayerDoc("walls", "true",
              <<TileDoc(<<"1">>, 0, 0, AttrAbsent), TileDoc(<<"7">>, 1, 1, AttrObject(Gem))>>),
          LayerDoc("ground", "absent", <<TileDoc(<<"0">>, 0, 1, AttrAbsent)>>)>>)

BareDoc == MapDoc(16, 1, 1, <<LayerDoc("empty", "false", <<>>)>>)

OutOfRangeDoc ==
    MapDoc(16, 2, 2, <<LayerDoc("ground", "absent", <<TileDoc(<<"1">>, 0, 2, AttrAbsent)>>)>>)

NegativeHeightDoc == MapDoc(16, 2, -1, <<>>)

SchedDocs == {GoodDoc, BareDoc, OutOfRangeDoc, NegativeHeightDoc, InvalidDoc}

Init == InitWith(1..MaxRequests, SchedDocs, {Origin})

Spec == Init /\ [][Next]_vars

\* Gating: requests for a well-formed map and for bytes that do not decode, so that
\* no pass fails and waiting requests are observed over every tick.
GateDocs == {GoodDoc, InvalidDoc}

InitGate == InitWith(1..MaxRequests, GateDocs, {Origin})

SpecGate == InitGate /\ [][Next]_vars

\* Positions: one layer of plain tiles at every coordinate of -1 .. MaxCoord, in maps
\* of height 0 .. MaxCoord + 1 and width 1 .. MaxCoord + 1.
CoordRange == -1..MaxCoord

PosTiles == {TileDoc(<<"7">>, x, y, AttrAbsent) : x \in CoordRange, y \in CoordRange}

PosDocs ==
    {MapDoc(16, w, h, <<LayerDoc("ground", "absent", ts)>>) :
        w \in 1..(MaxCoord + 1), h \in 0..(MaxCoord + 1), ts \in SeqsUpTo(PosTiles, MaxTiles)}

InitPos == InitWith({1}, PosDocs, {Origin})

SpecPos == InitPos /\ [][Next]_vars

\* Payloads: in-range tiles with every shape of the attributes field, in a first layer
\* with every shape of the collider field, followed by up to MaxLayers - 1 more layers.
PayloadTiles ==
    {TileDoc(<<"7">>, 0, 0, a) :
        a \in {AttrAbsent, AttrNull, AttrObject({}), AttrObject(Gem), AttrObject(GemWorth)}}

FirstLayers ==
    {LayerDoc("first", c, ts) :
        c \in {"absent", "true", "false"}, ts \in SeqsUpTo(PayloadTiles, MaxTiles)}

RestLayers ==
    {LayerDoc("solid", "true", <<TileDoc(<<"1">>, 1, 1, AttrAbsent)>>),
     LayerDoc("items", "absent", <<TileDoc(<<"2">>, 1, 0, AttrObject(Gem))>>)}

PayloadDocs ==
    {MapDoc(16, 2, 2, <<first>> \o rest) :
        first \in FirstLayers, rest \in SeqsUpTo(RestLayers, MaxLayers - 1)}

InitPayload == InitWith({1}, PayloadDocs, {Origin})

SpecPayload == InitPayload /\ [][Next]_vars

\* Depth: maps of 0 .. MaxLayers + 1 layers holding no tile or one, under root
\* translations near 0, at 2^18, at -2^18 and at -2^21.
DepthLayers ==
    {LayerDoc("a", "absent", <<>>),
     LayerDoc("b", "absent", <<TileDoc(<<"1">>, 0, 0, AttrAbsent)>>)}

DepthDocs == {MapDoc(16, 1, 1, ls) : ls \in SeqsUpTo(DepthLayers, MaxLayers + 1)}

RootZ == {IntAsF32(z) : z \in {0, 1, -3, 262144, -262144, -2097152}}

RootXY == {<<IntAsF32(0), IntAsF32(0)>>, <<IntAsF32(3), IntAsF32(-2)>>}

DepthTransforms == {[x |-> xy[1], y |-> xy[2], z |-> z] : xy \in RootXY, z \in RootZ}

InitDepth == InitWith({1}, DepthDocs, DepthTransforms)

SpecDepth == InitDepth /\ [][Next]_vars

\* Tile ids: every string of at most MaxIdLen characters of IdAlphabet, and some long ones.
IdAlphabet == {"0", "7", "a", "+", "-", " "}

LongIds ==
    {<<"9", "9", "9", "9", "9", "9", "9", "9", "9", "9", "9">>,
     <<"0", "0", "0", "0", "0", "0", "0", "0", "0", "0", "7">>,
     <<"a", "b", "c">>}

IdStrings == SeqsUpTo(IdAlphabet, MaxIdLen) \cup LongIds

IdDocs ==
    {MapDoc(16, 1, 1, <<LayerDoc("ground", "absent", <<TileDoc(id, 0, 0, AttrAbsent)>>)>>) :
        id \in IdStrings}

InitTileId == InitWith({1}, IdDocs, {Origin})

SpecTileId == InitTileId /\ [][Next]_vars

\* Attributes: one tile whose attributes hold, under each of the keys "name" and
\* "value", nothing or one of the sample values.
ValueSamples ==
    {JString("gem"), JBool(TRUE), JInt(10), JInt(-3), JBigUInt(5), JFloat(3), JFloat(20),
     JNull, JArray}

AttrMaps ==
    {a \cup b : a \in {{}} \cup {{[k |-> "name", v |-> v]} : v \in ValueSamples},
                b \in {{}} \cup {{[k |-> "value", v |-> v]} : v \in ValueSamples}}

AttrDocs ==
    {MapDoc(16, 1, 1, <<LayerDoc("items", "absent", <<TileDoc(<<"1">>, 0, 0, AttrObject(m))>>)>>) :
        m \in AttrMaps}

InitAttrs == InitWith({1}, AttrDocs, {Origin})

SpecAttrs == InitAttrs /\ [][NextWithReader]_vars

---------------------------------------------------------------------------
(* Vocabulary of the properties.                                           *)

Materialized(r) == marker[r].present

\* A u32 holds the integer v.
IsInt(u, v) == ~u.big /\ u.n = v

\* The tiles of the layers before layer li.
RECURSIVE TilesBefore(_, _)
TilesBefore(layers, li) ==
    IF li <= 1 THEN 0 ELSE Len(layers[li - 1].tiles) + TilesBefore(layers, li - 1)

\* The document's tile places: layer li, tile k.
Places(doc) == {<<li, k>> : li \in 1..Len(doc.layers), k \in 1..MaxTiles + 1}

TilePlaces(doc) == {p \in Places(doc) : p[2] <= Len(doc.layers[p[1]].tiles)}

\* The tile entity spawned for place p of request r's document.
Spawned(r, p) == tiles[r][TilesBefore(source[r].layers, p[1]) + p[2]]

TileDocAt(r, p) == source[r].layers[p[1]].tiles[p[2]]

---------------------------------------------------------------------------
(* C1  Materialization gating.                                             *)

\* C1: a request whose map asset or tileset image is not loaded is Pending and has
\* no marker, no layer entity and no tile entity, in every reachable state: whatever
\* the number of ticks run, and also when an asset has failed for good.
C1_Gating ==
    \A r \in Requests :
        (map_assets[r].state # "Loaded" \/ image_assets[r] # "Loaded") =>
            /\ pending[r]
            /\ ~marker[r].present
            /\ tilemaps[r] = <<>>
            /\ tiles[r] = <<>>

\* MaxTicks ticks have run, another request has been materialized, and a request
\* whose image failed while its map is loaded is still waiting.
C1_Witness ==
    \E r, o \in Requests :
        /\ ticks = MaxTicks
        /\ Materialized(o)
        /\ map_assets[r].state = "Loaded"
        /\ image_assets[r] = "Failed"
        /\ pending[r]

---------------------------------------------------------------------------
(* C2  Single materialization.                                             *)

\* C2: in a tick in which a pending request has both assets loaded, its Pending
\* marker is removed and the marker with a copy of the map is added; and no step
\* adds layer or tile entities to a request already materialized.
C2_ExactlyOnce ==
    [][/\ Tick =>
            \A r \in Requests :
                (pending[r] /\ Ready(r)) =>
                    /\ ~pending'[r]
                    /\ marker'[r] = [present |-> TRUE, map |-> map_assets[r].map]
       /\ \A r \in Requests :
            Materialized(r) =>
                /\ ~pending'[r]
                /\ marker'[r] = marker[r]
                /\ tilemaps'[r] = tilemaps[r]
                /\ tiles'[r] = tiles[r]]_vars

---------------------------------------------------------------------------
(* C3  Materialization cannot fail.                                        *)

\* C3: the system never panics, whatever the decoded map holds.
C3_NeverFails == ~panicked

---------------------------------------------------------------------------
(* C4  Vertical flip.                                                      *)

\* C4: every tile (x, y) of a materialized map of height H is spawned at grid
\* position (x, H - 1 - y).
C4_VerticalFlip ==
    \A r \in Requests :
        Materialized(r) =>
            \A p \in TilePlaces(source[r]) :
                /\ IsInt(Spawned(r, p).position.x, TileDocAt(r, p).x)
                /\ IsInt(Spawned(r, p).position.y,
                         source[r].mapHeight - 1 - TileDocAt(r, p).y)

---------------------------------------------------------------------------
(* C5  Collider propagation.                                               *)

\* The tile entities of request r that belong to tilemap li.
TilesOf(r, li) == {t \in 1..Len(tiles[r]) : tiles[r][t].tilemap_id = li}

\* C5: in a materialized map every layer has its tilemap entity, a layer of n tiles
\* has exactly n tile entities, each of them carries Collider exactly when the
\* document's layer says collider: true (an absent field is false), and the layer's
\* marker carries that flag too.
C5_ColliderPropagation ==
    \A r \in Requests :
        Materialized(r) =>
            /\ Len(tilemaps[r]) = Len(source[r].layers)
            /\ \A li \in 1..Len(source[r].layers) :
                  LET layer == source[r].layers[li]
                  IN  /\ Cardinality(TilesOf(r, li)) = Len(layer.tiles)
                      /\ \A t \in TilesOf(r, li) :
                            tiles[r][t].collider = (layer.collider = "true")
                      /\ tilemaps[r][li].marker.collider = (layer.collider = "true")

\* A materialized map whose first layer is a collider layer of at least two tiles,
\* all tagged, and which has a layer without the field whose tile is not tagged.
C5_Witness ==
    \E r \in Requests :
        /\ Materialized(r)
        /\ source[r].layers[1].collider = "true"
        /\ Len(source[r].layers[1].tiles) >= 2
        /\ \A t \in TilesOf(r, 1) : tiles[r][t].collider
        /\ \E li \in 1..Len(source[r].layers) :
              /\ source[r].layers[li].collider = "absent"
              /\ \E t \in TilesOf(r, li) : ~tiles[r][t].collider

---------------------------------------------------------------------------
(* C6  Depth ordering.                                                     *)

\* The z of the tilemap entity of layer li of request r.
LayerDepth(r, li) == tilemaps[r][li].transform.z

StrictDepthLimit == 2 ^ 18

---------------------------------------------------------------------------
(* C7  Texture index leniency.                                             *)

AllDigits(s) == Len(s) > 0 /\ \A i \in 1..Len(s) : s[i] \in Digits

RECURSIVE StripZeros(_)
StripZeros(s) == IF Len(s) > 1 /\ s[1] = "0" THEN StripZeros(Tail(s)) ELSE s

\* The digits of u32::MAX.
U32MaxDigits == <<4, 2, 9, 4, 9, 6, 7, 2, 9, 5>>

\* A digit string, without leading zeros, is at most u32::MAX.
FitsU32(s) ==
    \/ Len(s) < Len(U32MaxDigits)
    \/ /\ Len(s) = Len(U32MaxDigits)
       /\ \/ \A i \in 1..Len(s) : DigitVal(s[i]) = U32MaxDigits[i]
          \/ \E i \in 1..Len(s) :
                /\ DigitVal(s[i]) < U32MaxDigits[i]
                /\ \A j \in 1..(i - 1) : DigitVal(s[j]) = U32MaxDigits[j]

\* The number a digit string writes.
RECURSIVE Decimal(_)
Decimal(s) == IF Len(s) = 0 THEN 0 ELSE 10 * Decimal(SubSeq(s, 1, Len(s) - 1)) + DigitVal(s[Len(s)])

\* The id of the one tile of request r's document.
TheId(r) == source[r].layers[1].tiles[1].id

\* C7 as claimed: the texture index is n when the id is decimal digits writing a u32
\* n, and 0 for every other id.
DigitsOrZero(s) ==
    IF AllDigits(s) /\ FitsU32(StripZeros(s)) THEN Decimal(StripZeros(s)) ELSE 0

C7_DigitsOrZero ==
    \A r \in Requests :
        /\ tile_id([id |-> TheId(r)]) = DigitsOrZero(TheId(r))
        /\ Materialized(r) => tiles[r][1].texture_index = DigitsOrZero(TheId(r))

\* C7, amended: tile_id always returns a number; it is n when the id is decimal
\* digits, after at most one leading "+", writing a u32 n, and 0 for every other id;
\* the tile entity's texture index is that number.
SignedDigitsOrZero(s) ==
    IF Len(s) > 1 /\ s[1] = "+" THEN DigitsOrZero(Tail(s)) ELSE DigitsOrZero(s)

C7_ParseOrZero ==
    \A r \in Requests :
        /\ tile_id([id |-> TheId(r)]) \in Nat
        /\ tile_id([id |-> TheId(r)]) = SignedDigitsOrZero(TheId(r))
        /\ Materialized(r) => tiles[r][1].texture_index = SignedDigitsOrZero(TheId(r))

\* A materialized tile whose id "+7" gave texture index 7.
C7_Witness ==
    \E r \in Requests :
        /\ Materialized(r)
        /\ TheId(r) = <<"+", "7">>
        /\ tiles[r][1].texture_index = 7

---------------------------------------------------------------------------
(* C8  Attribute accessor typing.                                          *)

Present(l) == l.key \in Keys(l.attrs)

Stored(l) == Entry(l.attrs, l.key)

\* C8 as claimed: each typed accessor returns the stored value when the key is
\* present with a value of exactly its type, and absent otherwise; contains is
\* true exactly when the key is present.
C8_ExactTypeOnly ==
    lookup.done =>
        /\ lookup.str = IF Present(lookup) /\ Stored(lookup).t = "String"
                        THEN SomeStr(Stored(lookup).s) ELSE NoneStr
        /\ lookup.bool = IF Present(lookup) /\ Stored(lookup).t = "Bool"
                         THEN SomeBool(Stored(lookup).b) ELSE NoneBool
        /\ lookup.i64.some =
              (Present(lookup) /\ Stored(lookup).t = "Number"
                  /\ Stored(lookup).k \in {"PosInt", "NegInt"})
        /\ lookup.f64.some =
              (Present(lookup) /\ Stored(lookup).t = "Number" /\ Stored(lookup).k = "Float")
        /\ lookup.has = Present(lookup)

\* C8, amended: get_str and get_bool return the stored value when the key is present
\* with a String, a Bool; get_i64 returns the stored integer when the key is present
\* with an integer that fits i64; get_f64 returns the stored number as a float when
\* the key is present with any number, an integer converted; each returns absent in
\* every other case; contains is true exactly when the key is present.
C8_AccessorTyping ==
    lookup.done =>
        /\ lookup.str = IF Present(lookup) /\ Stored(lookup).t = "String"
                        THEN SomeStr(Stored(lookup).s) ELSE NoneStr
        /\ lookup.bool = IF Present(lookup) /\ Stored(lookup).t = "Bool"
                         THEN SomeBool(Stored(lookup).b) ELSE NoneBool
        /\ lookup.i64 = IF /\ Present(lookup)
                           /\ Stored(lookup).t = "Number"
                           /\ Stored(lookup).k \in {"PosInt", "NegInt"}
                           /\ ~Stored(lookup).over
                        THEN SomeI64(Stored(lookup).v) ELSE NoneI64
        /\ lookup.f64 = IF Present(lookup) /\ Stored(lookup).t = "Number"
                        THEN SomeF64(IF Stored(lookup).k = "Float"
                                     THEN F64(FALSE, Stored(lookup).v)
                                     ELSE IF Stored(lookup).over THEN F64(TRUE, 0)
                                     ELSE F64(FALSE, 2 * Stored(lookup).v))
                        ELSE NoneF64
        /\ lookup.has = Present(lookup)

\* The lookup of "value" in {"name": "gem", "value": 10}: the integer, also as a
\* float, and neither a string nor a bool.
C8_Witness ==
    /\ lookup.done
    /\ lookup.key = "value"
    /\ lookup.attrs = GemWorth
    /\ lookup.i64 = SomeI64(10)
    /\ lookup.f64 = SomeF64(F64(FALSE, 20))
    /\ lookup.str = NoneStr
    /\ lookup.bool = NoneBool
    /\ lookup.has

---------------------------------------------------------------------------
(* C9  Independent processing of requests.                                 *)

\* C9: a tick materializes in full every pending request whose two assets are
\* loaded, whatever the state of the other requests and the order of iteration.
C9_ReadyNeverBlocked ==
    [][Tick =>
        \A r \in Requests :
            (pending[r] /\ Ready(r)) =>
                /\ Materialized(r)'
                /\ Len(tilemaps'[r]) = Len(map_assets[r].map.layers)
                /\ Len(tiles'[r]) = SumTiles(map_assets[r].map.layers, 1)]_vars

---------------------------------------------------------------------------
(* C10  Attribute payload propagation.                                     *)

HasAttributes(tileDoc) == tileDoc.attributes.kind = "object" /\ tileDoc.attributes.entries # {}

\* C10: in a materialized map a tile entity carries TileAttributes exactly when its
\* tile's attributes are present and not empty, the payload is then the tile's
\* attribute map, and the one summary line logged for the map counts the layers, the
\* tiles and the tile entities that carry a payload.
C10_PayloadPropagation ==
    \A r \in Requests :
        Materialized(r) =>
            /\ Len(tiles[r]) = Cardinality(TilePlaces(source[r]))
            /\ \A p \in TilePlaces(source[r]) :
                  /\ Spawned(r, p).attributes.some = HasAttributes(TileDocAt(r, p))
                  /\ Spawned(r, p).attributes.some =>
                        Spawned(r, p).attributes.entries = TileDocAt(r, p).attributes.entries
            /\ Len(log) = 1
            /\ log[1].layers = Len(source[r].layers)
            /\ log[1].tiles = Len(tiles[r])
            /\ log[1].with_attrs =
                  Cardinality({t \in 1..Len(tiles[r]) : tiles[r][t].attributes.some})

\* A materialized map with a tile entity that carries its tile's attribute map, one
\* tile whose attributes are an empty object and one whose attributes are missing,
\* both spawned without a payload.
C10_Witness ==
    \E r \in Requests :
        /\ Materialized(r)
        /\ Len(log) = 1
        /\ log[1].with_attrs >= 1
        /\ \E p, q, o \in TilePlaces(source[r]) :
              /\ TileDocAt(r, p).attributes = AttrObject({})
              /\ ~Spawned(r, p).attributes.some
              /\ TileDocAt(r, q).attributes.kind # "object"
              /\ ~Spawned(r, q).attributes.some
              /\ Spawned(r, o).attributes = SomeAttributes(Gem)

====
